---- MODULE Spec2Model ----
(***************************************************************************)
(* Market response functions from ITCH and TAQ data.                       *)
(*                                                                         *)
(* The module models, as state machines, the order-book replay and the     *)
(* order-linkage trade-sign classification of the ITCH extraction, the     *)
(* tick rule of the TAQ analysis, the per-second midpoint resamplers and   *)
(* the day/week self-response aggregation.                                 *)
(*                                                                         *)
(* Prices are kept as the integers of the data files (1e-4 currency        *)
(* units); price levels and best quotes are integers in cents.  The        *)
(* floating point arithmetic of the price range is modelled exactly.       *)
(***************************************************************************)
EXTENDS Integers, Sequences, FiniteSets, TLC

VARIABLES
    file,   \* the day's ITCH file: [exists, rows]
    mid,    \* itch_midpoint_millisecond_data / itch_midpoint_second_data
    sgn,    \* itch_trade_signs_millisecond_data
    tick,   \* taq_trade_signs_trade_data
    week,   \* *_self_response_week_responses_second_data and its day calls
    rs,     \* itch_midpoint_second_data / taq_midpoint_second_data resampling
    pool,   \* the passes of taq_data_plot_generator's process pool and the files
            \* they wrote
    ss,     \* itch_trade_signs_second_data / taq_trade_signs_second_data
    day     \* one call of *_self_response_day_responses_second_data

vars == <<file, mid, sgn, tick, week, rs, pool, ss, day>>

-----------------------------------------------------------------------------
(* Bounds of the model.                                                    *)

\* longest day, in rows of the ITCH file
MaxEvents == 3

-----------------------------------------------------------------------------
(* General helpers.                                                        *)

Range(s) == {s[i] : i \in 1..Len(s)}

SeqsUpTo(S, lo, hi) == UNION {[1..n -> S] : n \in lo..hi}

Min(S) == CHOOSE x \in S : \A y \in S : x <= y

Max(S) == CHOOSE x \in S : \A y \in S : x >= y

\* round(num / den) to the nearest integer, ties to the even one (den > 0)
RoundHalfEven(num, den) ==
    LET q == num \div den
        r == num % den
    IN  IF 2 * r > den \/ (2 * r = den /\ q % 2 = 1) THEN q + 1 ELSE q

\* the state of a component that is not running
Idle == [pc |-> "idle"]

-----------------------------------------------------------------------------
(* The ITCH day file.                                                      *)

\* order types of the file, column T, as numbered by the midpoint function
TypeNr(T) ==
    CASE T = "B" -> 1
      [] T = "S" -> 2
      [] T = "E" -> 3
      [] T = "C" -> 4
      [] T = "F" -> 5
      [] T = "D" -> 6
      [] T = "X" -> 7
      [] T = "T" -> 8

Row(T, Order, Shares, Price) ==
    [Time |-> 0, Order |-> Order, T |-> T, Shares |-> Shares, Price |-> Price]

\* 9h30 and 16h in milliseconds
OpenMs == 34200000

CloseMs == 57600000

OrderIds == {1, 2}

Prices == {2000, 2100, 3000}

AddShares == {2}

TradeShares == {1, 3}

\* the rows a day is drawn from: limit orders, executions and deletions of
\* the order ids, and hidden trades, which carry no order id
EventSet ==
    {Row(T, o, q, p) : T \in {"B", "S"}, o \in OrderIds, q \in AddShares, p \in Prices}
    \cup {Row("E", o, q, 0) : o \in OrderIds, q \in TradeShares}
    \cup {Row(T, o, 0, 0) : T \in {"F", "D"}, o \in OrderIds}
    \cup {Row("T", 0, 1, p) : p \in {2000}}

\* the first row's time is base + 1, then one millisecond per row: the days
\* start on the opening millisecond
TimeBases == {OpenMs - 1}

Stamp(rows, base) == [i \in 1..Len(rows) |-> [rows[i] EXCEPT !.Time = base + i]]

\* np.genfromtxt gives a two-dimensional array for two rows or more
Days(events, bases) ==
    {Stamp(rows, base) : rows \in SeqsUpTo(events, 2, MaxEvents), base \in bases}

-----------------------------------------------------------------------------
(* itch_midpoint_millisecond_data                                          *)

\* best ask and best bid before any order: 10000000. and 0., in cents
bestAskInit == 1000000000

bestBidInit == 0

\* ids, times, types, prices: the rows with types_ < 7
Book(rows) == SelectSeq(rows, LAMBDA r : TypeNr(r.T) < 7)

\* position of the add order that newids/insertnr hold for the id of row iii:
\* the last limit order with that id before iii, 0 when the id is no key
LastAdd(rows, iii) ==
    LET adds == {j \in 1..(iii - 1) :
                    TypeNr(rows[j].T) < 3 /\ rows[j].Order = rows[iii].Order}
    IN  IF adds = {} THEN 0 ELSE Max(adds)

\* the first row whose newids lookup raises KeyError, 0 when none does
FirstKeyError(rows) ==
    LET bad == {i \in 1..Len(rows) : TypeNr(rows[i].T) >= 3 /\ LastAdd(rows, i) = 0}
    IN  IF bad = {} THEN 0 ELSE Min(bad)

prices_ref(rows) ==
    [i \in 1..Len(rows) |->
        IF TypeNr(rows[i].T) < 3 THEN rows[i].Price
        ELSE rows[LastAdd(rows, i)].Price]

types_ref(rows) ==
    [i \in 1..Len(rows) |->
        IF TypeNr(rows[i].T) < 3 THEN 0
        ELSE TypeNr(rows[LastAdd(rows, i)].T)]

\* prices_ref[types == 5]
FullPrices(rows) ==
    {prices_ref(rows)[i] : i \in {j \in 1..Len(rows) : TypeNr(rows[j].T) = 5}}

\* round(0.9 * min / 10000, 2) and round(1.1 * max / 10000, 2), in cents
minP(rows) == RoundHalfEven(9 * Min(FullPrices(rows)), 1000)

maxP0(rows) == RoundHalfEven(11 * Max(FullPrices(rows)), 1000)

\* len(valuesP) = int((maxP - minP) / 0.01); the quotient is taken exactly
\* (in binary floating point it can come out one lower)
NLevels(rows) == maxP0(rows) - minP(rows)

\* valuesP, indexed from 0 as in the source
valuesP(m, k) == m + k

myPriceIndex(price, m) == RoundHalfEven(price - 100 * m, 100)

InRange(idx, n) == idx >= 0 /\ idx < n

\* valuesP[n > 0]
Resting(m, n) == {valuesP(m, k) : k \in {j \in DOMAIN n : n[j] > 0}}

\* the quotes after an add of a sell order at level idx
AddSell(b, idx) ==
    [b EXCEPT
        !.bestAsk = IF b.nAsk[idx] = 0
                    THEN Min({b.bestAsk, valuesP(b.minP, idx)})
                    ELSE b.bestAsk,
        !.nAsk[idx] = @ + 1]

AddBuy(b, idx) ==
    [b EXCEPT
        !.bestBid = IF b.nBid[idx] = 0
                    THEN Max({b.bestBid, valuesP(b.minP, idx)})
                    ELSE b.bestBid,
        !.nBid[idx] = @ + 1]

\* the best ask after the count of level idx went down to n[idx]
NewBestAsk(m, n, idx, best) ==
    IF n[idx] = 0 /\ valuesP(m, idx) = best THEN Min(Resting(m, n)) ELSE best

NewBestBid(m, n, idx, best) ==
    IF n[idx] = 0 /\ valuesP(m, idx) = best THEN Max(Resting(m, n)) ELSE best

\* a leave that takes an order off both sides of the level
LeaveBoth(b, idx, typ) ==
    [b EXCEPT !.nAsk[idx] = @ - 1, !.nBid[idx] = @ - 1]

\* a limit order leaving the book in full; typ is types_ref of the row
Leave(b, idx, typ) ==
    IF typ = 2
    THEN LET n == [b.nAsk EXCEPT ![idx] = @ - 1]
         IN  [b EXCEPT !.nAsk = n,
                       !.bestAsk = NewBestAsk(b.minP, n, idx, b.bestAsk)]
    ELSE LET n == [b.nBid EXCEPT ![idx] = @ - 1]
         IN  [b EXCEPT !.nBid = n,
                       !.bestBid = NewBestBid(b.minP, n, idx, b.bestBid)]

\* .min() / .max() of an empty selection raises ValueError
LeaveRaises(b, idx, typ) ==
    IF typ = 2
    THEN LET n == [b.nAsk EXCEPT ![idx] = @ - 1]
         IN  n[idx] = 0 /\ valuesP(b.minP, idx) = b.bestAsk /\ Resting(b.minP, n) = {}
    ELSE LET n == [b.nBid EXCEPT ![idx] = @ - 1]
         IN  n[idx] = 0 /\ valuesP(b.minP, idx) = b.bestBid /\ Resting(b.minP, n) = {}

\* the book after the row of type typ (resolved type tref) at level idx
Apply(b, typ, tref, idx) ==
    IF ~InRange(idx, b.nlev) THEN b
    ELSE CASE typ = 2 -> AddSell(b, idx)
           [] typ = 1 -> AddBuy(b, idx)
           [] typ \in {5, 6} -> Leave(b, idx, tref)
           [] OTHER -> b

\* a record for every row, changed or not
EmitAlways(old, new, time) ==
    [new EXCEPT !.bestTimes = Append(@, time),
                !.bestAsks = Append(@, new.bestAsk),
                !.bestBids = Append(@, new.bestBid)]

\* bestTimes, bestAsks, bestBids grow when a best quote changed
Emit(old, new, time) ==
    IF new.bestAsk # old.bestAsk \/ new.bestBid # old.bestBid
    THEN [new EXCEPT !.bestTimes = Append(@, time),
                     !.bestAsks = Append(@, new.bestAsk),
                     !.bestBids = Append(@, new.bestBid)]
    ELSE new

\* day_times_ind of the midpoint function
MidInMarket(t) == t > OpenMs /\ t < CloseMs

day_times_ind(times) == [i \in 1..Len(times) |-> MidInMarket(times[i])]

\* s[ind]: the entries of s where the boolean array ind is true
Keep(s, ind) ==
    LET F[i \in 0..Len(s)] ==
            IF i = 0 THEN <<>>
            ELSE IF ind[i] THEN Append(F[i - 1], s[i]) ELSE F[i - 1]
    IN  F[Len(s)]

\* load the file; FileNotFoundError is caught and None returned
MidLoad ==
    /\ mid.pc = "load"
    /\ mid' = IF file.exists
              THEN [mid EXCEPT !.pc = "pass1"]
              ELSE [mid EXCEPT !.pc = "returned", !.ret = [kind |-> "None"]]
    /\ UNCHANGED <<day, ss, pool, file, sgn, tick, week, rs>>

\* the reference lists; an id that is no key of newids raises KeyError
MidPass1 ==
    /\ mid.pc = "pass1"
    /\ mid' = IF FirstKeyError(Book(file.rows)) # 0
              THEN [mid EXCEPT !.pc = "raised", !.exc = "KeyError"]
              ELSE [mid EXCEPT !.pc = "range"]
    /\ UNCHANGED <<day, ss, pool, file, sgn, tick, week, rs>>

\* the price range and the empty book; min() of no full execution, and
\* max() of no price level, raise ValueError
MidRange ==
    /\ mid.pc = "range"
    /\ LET rows == Book(file.rows)
       IN  mid' =
             IF FullPrices(rows) = {} \/ NLevels(rows) <= 0
             THEN [mid EXCEPT !.pc = "raised", !.exc = "ValueError"]
             ELSE LET n == NLevels(rows)
                  IN  [mid EXCEPT
                         !.pc = "replay",
                         !.iii = 1,
                         !.minP = minP(rows),
                         !.nlev = n,
                         !.nAsk = [k \in 0..(n - 1) |-> IF k = n - 1 THEN 1 ELSE 0],
                         !.nBid = [k \in 0..(n - 1) |-> IF k = 0 THEN 1 ELSE 0],
                         !.bestAsk = bestAskInit,
                         !.bestBid = bestBidInit]
    /\ UNCHANGED <<day, ss, pool, file, sgn, tick, week, rs>>

\* one turn of the replay loop
MidReplay ==
    /\ mid.pc = "replay"
    /\ LET rows == Book(file.rows)
           i    == mid.iii
       IN  IF i > Len(rows)
           THEN mid' = [mid EXCEPT !.pc = "filter"]
           ELSE LET typ  == TypeNr(rows[i].T)
                    tref == types_ref(rows)[i]
                    idx  == myPriceIndex(prices_ref(rows)[i], mid.minP)
                IN  IF InRange(idx, mid.nlev) /\ typ \in {5, 6}
                       /\ LeaveRaises(mid, idx, tref)
                    THEN mid' = [mid EXCEPT !.pc = "raised", !.exc = "ValueError"]
                    ELSE mid' = [Emit(mid, Apply(mid, typ, tref, idx), rows[i].Time)
                                    EXCEPT !.iii = i + 1]
    /\ UNCHANGED <<day, ss, pool, file, sgn, tick, week, rs>>

\* the quotes in the market hours are returned
MidFilter ==
    /\ mid.pc = "filter"
    /\ mid' = [mid EXCEPT
                 !.pc = "returned",
                 !.ret = [kind |-> "tuple",
                          times_spread |-> Keep(mid.bestTimes, day_times_ind(mid.bestTimes)),
                          bestAsks |-> Keep(mid.bestAsks, day_times_ind(mid.bestTimes)),
                          bestBids |-> Keep(mid.bestBids, day_times_ind(mid.bestTimes))]]
    /\ UNCHANGED <<day, ss, pool, file, sgn, tick, week, rs>>

MidStart ==
    [pc |-> "load", iii |-> 0, minP |-> 0, nlev |-> 0, nAsk |-> <<>>, nBid |-> <<>>,
     bestAsk |-> bestAskInit, bestBid |-> bestBidInit,
     bestTimes |-> <<>>, bestAsks |-> <<>>, bestBids |-> <<>>,
     ret |-> [kind |-> "unset"], exc |-> "none"]

\* itch_midpoint_second_data: the call is in no try block, so what the
\* millisecond function raises goes on to the caller, and unpacking None
\* raises TypeError; otherwise the series is resampled
MidSecond ==
    /\ mid.pc \in {"returned", "raised"}
    /\ mid' = IF mid.pc = "raised" THEN [mid EXCEPT !.pc = "escaped"]
              ELSE IF mid.ret.kind = "None"
                   THEN [mid EXCEPT !.pc = "escaped", !.exc = "TypeError"]
                   ELSE [mid EXCEPT !.pc = "resample"]
    /\ UNCHANGED <<day, ss, pool, file, sgn, tick, week, rs>>

MidDone == mid.pc \in {"escaped", "resample"}

-----------------------------------------------------------------------------
(* itch_trade_signs_millisecond_data                                       *)

\* the Shares column is read as uint16
Uint16 == 65536

\* trade_data: visible ('E', 'F') and hidden ('T') trades
trade_data(rows) == SelectSeq(rows, LAMBDA r : r.T \in {"E", "F", "T"})

\* limit_data: the limit orders whose order number is that of some trade
limit_data(rows) ==
    SelectSeq(rows, LAMBDA r : r.T \in {"B", "S"}
                               /\ \E i \in 1..Len(rows) :
                                     rows[i].T \in {"E", "F", "T"}
                                     /\ rows[i].Order = r.Order)

trade_data_types(r) ==
    CASE r.T = "E" -> 3
      [] r.T = "F" -> 4
      [] r.T = "T" -> 5

limit_data_types(r) == IF r.T = "S" THEN 1 ELSE -1

\* the last limit order of that number in place of the first
LastMatch(order, limit_data_order) ==
    LET hits == {l \in 1..Len(limit_data_order) : limit_data_order[l] = order}
    IN  IF hits = {} THEN 0 ELSE Max(hits)

\* np.where(limit_data_order == order)[0][0]; 0 stands for the IndexError
FirstMatch(order, limit_data_order) ==
    LET hits == {l \in 1..Len(limit_data_order) : limit_data_order[l] = order}
    IN  IF hits = {} THEN 0 ELSE Min(hits)

\* limit_data_volume[l_idx] - trade_data_volume[t_idx], of two uint16
diff_volumes(limit_volume, trade_volume) == (limit_volume - trade_volume) % Uint16

\* the sign of a trade that consumed the limit order of type typ
SignOf(typ) == IF typ = 1 THEN 1 ELSE -1

SgnStart ==
    [pc |-> "load", t_idx |-> 0,
     limit_data_order |-> <<>>, limit_data_volume |-> <<>>,
     trade_signs |-> <<>>, trade_volumes |-> <<>>, trade_price |-> <<>>,
     matched |-> <<>>, ret |-> [kind |-> "unset"], exc |-> "none"]

\* load the file and split it; FileNotFoundError is caught and None returned
SgnLoad ==
    /\ MidDone
    /\ sgn.pc = "load"
    /\ sgn' = IF ~file.exists
              THEN [sgn EXCEPT !.pc = "returned", !.ret = [kind |-> "None"]]
              ELSE LET lim == limit_data(file.rows)
                       n   == Len(trade_data(file.rows))
                   IN  [sgn EXCEPT
                          !.pc = "loop",
                          !.t_idx = 1,
                          !.limit_data_order = [l \in 1..Len(lim) |-> lim[l].Order],
                          !.limit_data_volume = [l \in 1..Len(lim) |-> lim[l].Shares],
                          !.trade_signs = [t \in 1..n |-> 0],
                          !.trade_volumes = [t \in 1..n |-> 0],
                          !.trade_price = [t \in 1..n |-> 0],
                          !.matched = [t \in 1..n |-> 0]]
    /\ UNCHANGED <<day, ss, pool, file, mid, tick, week, rs>>

\* one turn of the loop over the trades; matched[t_idx] records l_idx
SgnTrade ==
    /\ sgn.pc = "loop"
    /\ LET trades == trade_data(file.rows)
           lim    == limit_data(file.rows)
           t      == sgn.t_idx
       IN  IF t > Len(trades)
           THEN sgn' = [sgn EXCEPT !.pc = "finish"]
           ELSE LET l_idx == FirstMatch(trades[t].Order, sgn.limit_data_order)
                IN  IF l_idx = 0
                    THEN \* IndexError: pass
                         sgn' = [sgn EXCEPT !.t_idx = t + 1]
                    ELSE LET s1 == [sgn EXCEPT
                                      !.trade_price[t] = lim[l_idx].Price,
                                      !.trade_signs[t] = SignOf(limit_data_types(lim[l_idx])),
                                      !.matched[t] = l_idx]
                             d  == diff_volumes(sgn.limit_data_volume[l_idx],
                                                trades[t].Shares)
                         IN  IF trade_data_types(trades[t]) = 4
                             THEN sgn' = [s1 EXCEPT
                                            !.trade_volumes[t] = sgn.limit_data_volume[l_idx],
                                            !.limit_data_order[l_idx] = 0,
                                            !.t_idx = t + 1]
                             ELSE IF d > 0
                                  THEN sgn' = [s1 EXCEPT
                                                 !.trade_volumes[t] = trades[t].Shares,
                                                 !.limit_data_volume[l_idx] = d,
                                                 !.t_idx = t + 1]
                                  ELSE \* assert diff_volumes > 0
                                       sgn' = [s1 EXCEPT
                                                 !.trade_volumes[t] = trades[t].Shares,
                                                 !.pc = "raised",
                                                 !.exc = "AssertionError"]
    /\ UNCHANGED <<day, ss, pool, file, mid, tick, week, rs>>

\* market_time of the trade signs function
SgnInMarket(t) == t >= OpenMs /\ t < CloseMs

market_time(times) == [i \in 1..Len(times) |-> SgnInMarket(times[i])]

\* the hidden trades take their own volume and price; the trades in the
\* market hours are returned
SgnFinish ==
    /\ sgn.pc = "finish"
    /\ LET trades == trade_data(file.rows)
           n      == Len(trades)
           times  == [t \in 1..n |-> trades[t].Time]
           vols   == [t \in 1..n |-> IF trade_data_types(trades[t]) = 5
                                     THEN trades[t].Shares ELSE sgn.trade_volumes[t]]
           prc    == [t \in 1..n |-> IF trade_data_types(trades[t]) = 5
                                     THEN trades[t].Price ELSE sgn.trade_price[t]]
       IN  sgn' = [sgn EXCEPT
                     !.pc = "returned",
                     !.trade_volumes = vols,
                     !.trade_price = prc,
                     !.ret = [kind |-> "tuple",
                              trade_times_market |-> Keep(times, market_time(times)),
                              trade_signs_market |-> Keep(sgn.trade_signs, market_time(times)),
                              trade_volumes_market |-> Keep(vols, market_time(times)),
                              trade_price_market |-> Keep(prc, market_time(times))]]
    /\ UNCHANGED <<day, ss, pool, file, mid, tick, week, rs>>

-----------------------------------------------------------------------------
(* The specification of one ITCH (ticker, date) pass: the midpoint         *)
(* functions, then the trade signs function, on the same day file.         *)

Files(events, bases) ==
    {[exists |-> TRUE, rows |-> d] : d \in Days(events, bases)}
    \cup {[exists |-> FALSE, rows |-> <<>>]}

Init ==
    /\ file \in Files(EventSet, TimeBases)
    /\ mid = MidStart
    /\ sgn = SgnStart
    /\ tick = Idle
    /\ week = Idle
    /\ rs = Idle
    /\ pool = Idle
    /\ ss = Idle
    /\ day = Idle

Next ==
    \/ MidLoad
    \/ MidPass1
    \/ MidRange
    \/ MidReplay
    \/ MidFilter
    \/ MidSecond
    \/ SgnLoad
    \/ SgnTrade
    \/ SgnFinish

Spec == Init /\ [][Next]_vars

-----------------------------------------------------------------------------
(* The end-to-end day: one buy add (100.00, 100 shares), one sell add      *)
(* (100.05, 50 shares), one full execution of the sell order.  The days of *)
(* SpecE2E are the sequences of these three rows.                          *)

E2EBuy == Row("B", 1, 100, 1000000)

E2ESell == Row("S", 2, 50, 1000500)

E2EFull == Row("F", 2, 0, 0)

E2EEvents == {E2EBuy, E2ESell, E2EFull}

E2EBases == {OpenMs + 1800000}

E2EDay == Stamp(<<E2EBuy, E2ESell, E2EFull>>, OpenMs + 1800000)

InitE2E ==
    /\ file \in Files(E2EEvents, E2EBases)
    /\ mid = MidStart
    /\ sgn = SgnStart
    /\ tick = Idle
    /\ week = Idle
    /\ rs = Idle
    /\ pool = Idle
    /\ ss = Idle
    /\ day = Idle

SpecE2E == InitE2E /\ [][Next]_vars

-----------------------------------------------------------------------------
(* Properties of the ITCH pass.                                            *)

RECURSIVE SumOver(_, _)
SumOver(f, S) ==
    IF S = {} THEN 0
    ELSE LET x == CHOOSE y \in S : TRUE IN f[x] + SumOver(f, S \ {x})

\* C1: every BestQuoteChange record the reconstruction returns has
\* best_bid <= best_ask when neither is the 'no quote yet' placeholder.
C1_BidLeAsk ==
    mid.ret.kind = "tuple" =>
        \A k \in 1..Len(mid.ret.bestBids) :
            (mid.ret.bestBids[k] # bestBidInit /\ mid.ret.bestAsks[k] # bestAskInit)
                => mid.ret.bestBids[k] <= mid.ret.bestAsks[k]

\* C2: volume conservation: at every point of the classification loop, the
\* volumes recorded for the trades matched to a resting order sum to at most
\* the quantity the order was added with.
C2_VolumeConserved ==
    sgn.pc \in {"loop", "finish", "raised"} =>
        \A l \in 1..Len(sgn.limit_data_order) :
            SumOver(sgn.trade_volumes,
                    {t \in 1..Len(sgn.matched) : sgn.matched[t] = l})
                <= limit_data(file.rows)[l].Shares

\* C7: on the end-to-end day the returned best asks go from the placeholder,
\* to 100.05, to a value that is no price level of the book ('no resting
\* ask'), and the trade is classified +1.
C7_EndToEnd ==
    (file.rows = E2EDay /\ mid.ret.kind = "tuple" /\ sgn.pc = "returned") =>
        /\ Len(mid.ret.bestAsks) = 3
        /\ mid.ret.bestAsks[1] = bestAskInit
        /\ mid.ret.bestAsks[2] = 10005
        /\ mid.ret.bestAsks[3] \notin {valuesP(mid.minP, k) : k \in 0..(mid.nlev - 1)}
        /\ sgn.ret.kind = "tuple"
        /\ sgn.ret.trade_signs_market = <<1>>

\* C10: no failure inside a pass escapes it as an exception: neither the
\* midpoint functions nor the trade signs function end by raising.
C10_NoEscape == mid.pc # "escaped" /\ sgn.pc # "raised"

-----------------------------------------------------------------------------
(* taq_trade_signs_trade_data: the tick rule.                              *)

\* longest day, in trades
MaxTrades == 4

\* trade prices of the TAQ file; 0 is the price the first assertion refuses
TradePrices == {0, 9, 10, 11}

\* np.sign
Sign(x) == IF x > 0 THEN 1 ELSE IF x < 0 THEN -1 ELSE 0

\* np.zeros(n) with identified_trades[-1] = 1
SeededNone(n) == [i \in 1..n |-> 0]

Seeded(n) == [i \in 1..n |-> IF i = n THEN 1 ELSE 0]

\* the position Python reads for index t_idx - 1: before the first position
\* comes the last one (positions count from 1 here)
Before(i, n) == IF i = 1 THEN n ELSE i - 1

\* the sign of the difference taken the wrong way round
TickSignReversed(ask_t, identified_trades, i) ==
    LET diff == ask_t[Before(i, Len(ask_t))] - ask_t[i]
    IN  IF diff # 0 THEN Sign(diff)
        ELSE identified_trades[Before(i, Len(ask_t))]

\* the sign given to trade i, from the signs identified so far
TickSign(ask_t, identified_trades, i) ==
    LET diff == ask_t[i] - ask_t[Before(i, Len(ask_t))]
    IN  IF diff # 0 THEN Sign(diff)
        ELSE identified_trades[Before(i, Len(ask_t))]

TickStart(exists, ask_t) ==
    [pc |-> "load", exists |-> exists, ask_t |-> ask_t,
     identified_trades |-> <<>>, t_idx |-> 0,
     ret |-> [kind |-> "unset"], exc |-> "none", at |-> 0]

\* load the trades; FileNotFoundError is caught and None returned; a zero
\* price fails the first assertion; identified_trades[-1] of no trade raises
\* IndexError
TickLoad ==
    /\ tick.pc = "load"
    /\ tick' =
         IF ~tick.exists
         THEN [tick EXCEPT !.pc = "returned", !.ret = [kind |-> "None"]]
         ELSE IF \E i \in 1..Len(tick.ask_t) : tick.ask_t[i] = 0
         THEN [tick EXCEPT !.pc = "raised", !.exc = "AssertionError", !.at = 222]
         ELSE IF Len(tick.ask_t) = 0
         THEN [tick EXCEPT !.pc = "raised", !.exc = "IndexError", !.at = 226]
         ELSE [tick EXCEPT !.pc = "loop", !.t_idx = 1,
                           !.identified_trades = Seeded(Len(tick.ask_t))]
    /\ UNCHANGED <<day, ss, pool, file, mid, sgn, week, rs>>

\* one turn of the loop of equation (1)
TickStep ==
    /\ tick.pc = "loop"
    /\ tick' =
         IF tick.t_idx > Len(tick.ask_t)
         THEN [tick EXCEPT !.pc = "check"]
         ELSE [tick EXCEPT
                 !.identified_trades[tick.t_idx] =
                     TickSign(tick.ask_t, tick.identified_trades, tick.t_idx),
                 !.t_idx = @ + 1]
    /\ UNCHANGED <<day, ss, pool, file, mid, sgn, week, rs>>

\* all the identified trades must be different to zero
TickCheck ==
    /\ tick.pc = "check"
    /\ tick' =
         IF \E i \in 1..Len(tick.identified_trades) : tick.identified_trades[i] = 0
         THEN [tick EXCEPT !.pc = "raised", !.exc = "AssertionError", !.at = 242]
         ELSE [tick EXCEPT !.pc = "returned",
                           !.ret = [kind |-> "tuple",
                                    identified_trades |-> tick.identified_trades]]
    /\ UNCHANGED <<day, ss, pool, file, mid, sgn, week, rs>>

InitTick ==
    /\ \E exists \in BOOLEAN, ask_t \in SeqsUpTo(TradePrices, 0, MaxTrades) :
          /\ (~exists => ask_t = <<>>)
          /\ tick = TickStart(exists, ask_t)
    /\ file = [exists |-> FALSE, rows |-> <<>>]
    /\ mid = Idle
    /\ sgn = Idle
    /\ week = Idle
    /\ rs = Idle
    /\ pool = Idle
    /\ ss = Idle
    /\ day = Idle

NextTick ==
    \/ TickLoad
    \/ TickStep
    \/ TickCheck

SpecTick == InitTick /\ [][NextTick]_vars

\* C3: the tick rule on the prices [10, 10, 9, 11] gives the signs
\* [+1, +1, -1, +1].
C3_TickBoundary ==
    (tick.pc = "returned" /\ tick.ret.kind = "tuple" /\ tick.ask_t = <<10, 10, 9, 11>>)
        => tick.ret.identified_trades = <<1, 1, -1, 1>>

\* C4: after the tick rule on a non-empty day of non-zero prices no trade has
\* sign 0, and the assertion after the scan does not fail.
C4_NoZeroSign ==
    /\ tick.pc = "check" =>
          \A i \in 1..Len(tick.identified_trades) : tick.identified_trades[i] # 0
    /\ tick.pc = "raised" => tick.at # 242
    /\ (tick.pc = "returned" /\ tick.ret.kind = "tuple") =>
          \A i \in 1..Len(tick.ret.identified_trades) :
              tick.ret.identified_trades[i] \in {-1, 1}

\* a day of several trades, all at one price, was classified
C4_Witness ==
    /\ tick.pc = "returned"
    /\ tick.ret.kind = "tuple"
    /\ Len(tick.ask_t) >= 2
    /\ \A i \in 1..Len(tick.ask_t) : tick.ask_t[i] = tick.ask_t[1]

-----------------------------------------------------------------------------
(* Rational numbers, for the returns and the responses.                    *)

RECURSIVE GCD(_, _)
GCD(a, b) == IF b = 0 THEN a ELSE GCD(b, a % b)

Abs(x) == IF x < 0 THEN -x ELSE x

\* num / den in lowest terms (den # 0)
Rat(num, den) ==
    LET g == GCD(Abs(num), Abs(den))
        sg == IF den < 0 THEN -1 ELSE 1
    IN  [num |-> sg * (num \div g), den |-> sg * (den \div g)]

RatZero == [num |-> 0, den |-> 1]

RatAdd(a, b) == Rat(a.num * b.den + b.num * a.den, a.den * b.den)

\* the quotient numpy gives: 0 / 0 is nan and x / 0 is infinite, with a warning
\* and no exception
NpDivide(a, n) ==
    IF n # 0 THEN Rat(a.num, a.den * n)
    ELSE IF a.num = 0 THEN [num |-> 0, den |-> 0]
    ELSE [num |-> Sign(a.num), den |-> 0]

NaN == [num |-> 0, den |-> 0]

-----------------------------------------------------------------------------
(* itch_/taq_self_response_day_responses_second_data and                   *)
(* itch_/taq_self_response_week_responses_second_data                      *)

\* __tau__, the number of lags (1000 in the source)
Tau == 2

\* length of the per-second series of a day
SeriesLen == 3

\* days of a week
MaxDays == 2

MidVals == {1, 2}

SignVals == {-1, 0, 1}

\* what the two pickle files of a day hold: the midpoint and the trade sign
\* series, or no file
DayInputs ==
    {[exists |-> FALSE, midpoint |-> <<>>, trade_sign |-> <<>>]}
    \cup {[exists |-> TRUE, midpoint |-> m, trade_sign |-> s] :
            m \in SeqsUpTo(MidVals, SeriesLen, SeriesLen),
            s \in SeqsUpTo(SignVals, SeriesLen - 1, SeriesLen)}

\* x[:-tau_idx - 1] keeps the first len(x) - tau_idx - 1 elements
HeadLen(n, tau_idx) == IF n - tau_idx - 1 > 0 THEN n - tau_idx - 1 ELSE 0

\* len(trade_sign_tau[trade_sign_tau != 0])
trade_sign_no_0_len(trade_sign, tau_idx) ==
    Cardinality({t \in 1..HeadLen(Len(trade_sign), tau_idx) : trade_sign[t] # 0})

RECURSIVE RatSum(_, _)
RatSum(f, n) == IF n = 0 THEN RatZero ELSE RatAdd(RatSum(f, n - 1), f[n])

\* np.sum(log_return_sec * trade_sign_tau)
ResponseSum(midpoint, trade_sign, tau_idx) ==
    LET n == HeadLen(Len(midpoint), tau_idx)
        product == [t \in 1..n |->
                      Rat((midpoint[t + tau_idx + 1] - midpoint[t]) * trade_sign[t],
                          midpoint[t])]
    IN  RatSum(product, n)

Zeros == [tau_idx \in 0..(Tau - 1) |-> RatZero]

ZerosN == [tau_idx \in 0..(Tau - 1) |-> 0]

\* what a failed day returns: (zeros, zeros)
FailedDay == [self_response_tau |-> Zeros, num |-> ZerosN]

\* a call that has not returned
NoResult == [self_response_tau |-> <<>>, num |-> <<>>]

\* the result of a day: how the call ended, and what it returned
DayResult(in) ==
    IF ~in.exists
    THEN [end |-> "FileNotFoundError", ret |-> FailedDay]
    ELSE IF Len(in.midpoint) # Len(in.trade_sign)
    THEN [end |-> "AssertionError", ret |-> NoResult]
    ELSE [end |-> "ok",
          ret |-> [self_response_tau |->
                       [tau_idx \in 0..(Tau - 1) |->
                           IF trade_sign_no_0_len(in.trade_sign, tau_idx) # 0
                           THEN ResponseSum(in.midpoint, in.trade_sign, tau_idx)
                           ELSE RatZero],
                   num |-> [tau_idx \in 0..(Tau - 1) |->
                               trade_sign_no_0_len(in.trade_sign, tau_idx)]]]

\* np.sum(self_values[0], axis=0), then self_v_final[0] / self_v_final[1]
RECURSIVE SumR(_, _, _)
SumR(days, n, tau_idx) ==
    IF n = 0 THEN RatZero
    ELSE RatAdd(SumR(days, n - 1, tau_idx), days[n].self_response_tau[tau_idx])

RECURSIVE SumN(_, _, _)
SumN(days, n, tau_idx) ==
    IF n = 0 THEN 0 ELSE SumN(days, n - 1, tau_idx) + days[n].num[tau_idx]

WeekResponse(days) ==
    [self_response_val |->
        [tau_idx \in 0..(Tau - 1) |->
            NpDivide(SumR(days, Len(days), tau_idx), SumN(days, Len(days), tau_idx))],
     self_response_avg |->
        [tau_idx \in 0..(Tau - 1) |-> SumN(days, Len(days), tau_idx)]]

WeekStart(n) ==
    [pc |-> "map", ndays |-> n,
     end |-> [d \in 1..n |-> "pending"],
     self_values |-> [d \in 1..n |-> NoResult],
     ret |-> [kind |-> "unset"], exc |-> "none"]

\* a worker of the pool runs the day function on one date
WeekDay(d) ==
    /\ week.pc = "map"
    /\ week.end[d] = "pending"
    /\ \E in \in DayInputs :
          LET r == DayResult(in)
          IN  week' = [week EXCEPT !.end[d] = r.end,
                                   !.self_values[d] = r.ret]
    /\ UNCHANGED <<day, ss, pool, file, mid, sgn, tick, rs>>

\* pool.starmap returns the list of the results, or raises again, in the
\* parent, what a day raised; then the sums and the quotient
WeekReduce ==
    /\ week.pc = "map"
    /\ \/ /\ \E d \in 1..week.ndays : week.end[d] = "AssertionError"
          /\ week' = [week EXCEPT !.pc = "raised", !.exc = "AssertionError"]
       \/ /\ \A d \in 1..week.ndays : week.end[d] \in {"ok", "FileNotFoundError"}
          /\ week' = [week EXCEPT
                        !.pc = "returned",
                        !.ret = [kind |-> "tuple"] @@ WeekResponse(week.self_values)]
    /\ UNCHANGED <<day, ss, pool, file, mid, sgn, tick, rs>>

InitWeek ==
    /\ \E n \in 1..MaxDays : week = WeekStart(n)
    /\ file = [exists |-> FALSE, rows |-> <<>>]
    /\ mid = Idle
    /\ sgn = Idle
    /\ tick = Idle
    /\ rs = Idle
    /\ pool = Idle
    /\ ss = Idle
    /\ day = Idle

NextWeek ==
    \/ \E d \in 1..MaxDays : d <= week.ndays /\ WeekDay(d)
    \/ WeekReduce

SpecWeek == InitWeek /\ [][NextWeek]_vars

\* the days of the aggregation example: (R, N) = ([2, 0], [2, 0]) and
\* ([4, 0], [2, 0])
ExampleDay(r) ==
    [self_response_tau |-> [tau_idx \in 0..(Tau - 1) |->
                               IF tau_idx = 0 THEN Rat(r, 1) ELSE RatZero],
     num |-> [tau_idx \in 0..(Tau - 1) |-> IF tau_idx = 0 THEN 2 ELSE 0]]

\* C5: a lag whose summed sample count is 0 has response exactly 0, the
\* other lags have the quotient of the sums; the example days give [1.5, 0].
C5_ZeroCountGivesZero ==
    /\ week.pc = "returned" =>
          \A tau_idx \in 0..(Tau - 1) :
              week.ret.self_response_val[tau_idx] =
                  IF week.ret.self_response_avg[tau_idx] = 0 THEN RatZero
                  ELSE Rat(SumR(week.self_values, week.ndays, tau_idx).num,
                           SumR(week.self_values, week.ndays, tau_idx).den
                               * week.ret.self_response_avg[tau_idx])
    /\ week.pc = "returned" =>
          WeekResponse(<<ExampleDay(2), ExampleDay(4)>>).self_response_val
          = [tau_idx \in 0..(Tau - 1) |-> IF tau_idx = 0 THEN Rat(3, 2) ELSE RatZero]

\* C8: a day that failed, for whatever reason, counts as all-zero R and N,
\* and the week still returns the result of the other days.
C8_FailedDayIsZero ==
    /\ \A d \in 1..week.ndays :
          week.end[d] \notin {"pending", "ok"} => week.self_values[d] = FailedDay
    /\ week.pc # "raised"

\* C9: what a failed day call returns differs from what any successful day
\* call returns, a legitimate all-zero result included.
C9_FailureDistinct ==
    \A d1, d2 \in 1..week.ndays :
        (week.end[d1] \notin {"pending", "ok"} /\ week.end[d2] = "ok")
            => week.self_values[d1] # week.self_values[d2]

-----------------------------------------------------------------------------
(* itch_midpoint_second_data and taq_midpoint_second_data: the midpoint of *)
(* every second.  Seconds are counted from the first second of the market  *)
(* time (34800 in the source); the ITCH times are in milliseconds.         *)

\* seconds of the market time
GridLen == 6

\* observations of a day
MaxObs == 3

\* seconds before the market time in which a day may have observations
Back == 2

ObsVals == {50, 52}

ObsTimes == (0 - Back)..(GridLen - 1)

\* full_time = np.array(range(34800, 57000))
full_time(n) == [i \in 1..n |-> i - 1]

\* the raw series of a day: times do not decrease
RawSeries ==
    {o \in SeqsUpTo([t : ObsTimes, v : ObsVals], 0, MaxObs) :
        \A i \in 1..(Len(o) - 1) : o[i].t <= o[i + 1].t}

\* the ITCH series carries milliseconds
InMs(o) == [i \in 1..Len(o) |-> [t |-> o[i].t * 1000, v |-> o[i].v]]

\* condition: the observations of the second t_val
InSecond(variant, time, t_val) ==
    IF variant = "itch"
    THEN time >= t_val * 1000 /\ time < (t_val + 1) * 1000
    ELSE time = t_val

Hits(variant, obs, t_val) ==
    {k \in 1..Len(obs) : InSecond(variant, obs[k].t, t_val)}

\* midpoint[t_idx - 1] when the second has no observation
NoCarry(midpoint, i) == 0

Carry(midpoint, i) == midpoint[Before(i, Len(midpoint))]

\* the first observation of the second in place of the last
FillValueFirst(variant, obs, full, midpoint, i) ==
    LET hits == Hits(variant, obs, full[i])
    IN  IF hits # {} THEN obs[Min(hits)].v ELSE Carry(midpoint, i)

\* the value of slot i: the last observation of its second, else the
\* previous slot
FillValue(variant, obs, full, midpoint, i) ==
    LET hits == Hits(variant, obs, full[i])
    IN  IF hits # {} THEN obs[Max(hits)].v ELSE Carry(midpoint, i)

RsStart(variant, src, obs, n) ==
    [pc |-> "call", variant |-> variant, src |-> src, obs |-> obs,
     full_time |-> full_time(n), midpoint |-> [i \in 1..n |-> 0],
     t_idx |-> 0, t_pos |-> 0, m_pos |-> 0,
     ret |-> [kind |-> "unset"], exc |-> "none"]

\* the raw series is unpacked; in the TAQ function the TypeError of
\* unpacking None is caught and None returned
RsCall ==
    /\ rs.pc = "call"
    /\ rs' = IF rs.src = "None"
             THEN [rs EXCEPT !.pc = "returned", !.ret = [kind |-> "None"]]
             ELSE [rs EXCEPT !.pc = "fill", !.t_idx = 1]
    /\ UNCHANGED <<day, ss, pool, file, mid, sgn, tick, week>>

\* one turn of the loop over full_time
RsFill ==
    /\ rs.pc = "fill"
    /\ rs' =
         IF rs.t_idx > Len(rs.full_time)
         THEN IF rs.variant = "itch"
              THEN [rs EXCEPT !.pc = "assert"]
              ELSE [rs EXCEPT !.pc = "seek", !.t_pos = rs.full_time[1]]
         ELSE [rs EXCEPT
                 !.midpoint[rs.t_idx] =
                     FillValue(rs.variant, rs.obs, rs.full_time, rs.midpoint, rs.t_idx),
                 !.t_idx = @ + 1]
    /\ UNCHANGED <<day, ss, pool, file, mid, sgn, tick, week>>

\* no observation is earlier than this second
SeekFloor == 0 - Back - 1

\* TAQ: one turn of the loop that moves t_pos back to a second with an
\* observation; below SeekFloor every second is alike, and t_pos is kept
RsSeek ==
    /\ rs.pc = "seek"
    /\ rs' = IF Hits(rs.variant, rs.obs, rs.t_pos) # {}
             THEN [rs EXCEPT !.pc = "seed", !.m_pos = 0]
             ELSE [rs EXCEPT !.t_pos = IF @ > SeekFloor THEN @ - 1 ELSE @]
    /\ UNCHANGED <<day, ss, pool, file, mid, sgn, tick, week>>

\* TAQ: one turn of the loop that gives the first slots, while they are
\* zero, the last midpoint of the second t_pos; midpoint[m_pos] past the
\* last slot raises IndexError
RsSeed ==
    /\ rs.pc = "seed"
    /\ rs' =
         IF rs.m_pos >= Len(rs.midpoint)
         THEN [rs EXCEPT !.pc = "raised", !.exc = "IndexError"]
         ELSE IF rs.midpoint[rs.m_pos + 1] # 0
         THEN [rs EXCEPT !.pc = "assert"]
         ELSE [rs EXCEPT
                 !.midpoint[rs.m_pos + 1] =
                     rs.obs[Max(Hits(rs.variant, rs.obs, rs.t_pos))].v,
                 !.m_pos = @ + 1]
    /\ UNCHANGED <<day, ss, pool, file, mid, sgn, tick, week>>

\* assert not np.sum(midpoint == 0), then the series is saved and returned
RsAssert ==
    /\ rs.pc = "assert"
    /\ rs' = IF \E i \in 1..Len(rs.midpoint) : rs.midpoint[i] = 0
             THEN [rs EXCEPT !.pc = "raised", !.exc = "AssertionError"]
             ELSE [rs EXCEPT !.pc = "returned",
                             !.ret = [kind |-> "tuple", midpoint |-> rs.midpoint]]
    /\ UNCHANGED <<day, ss, pool, file, mid, sgn, tick, week>>

InitResample ==
    /\ \E n \in 1..GridLen, o \in RawSeries :
          \/ rs = RsStart("itch", "tuple", InMs(o), n)
          \/ rs = RsStart("taq", "tuple", o, n)
          \/ o = <<>> /\ rs = RsStart("taq", "None", o, n)
    /\ file = [exists |-> FALSE, rows |-> <<>>]
    /\ mid = Idle
    /\ sgn = Idle
    /\ tick = Idle
    /\ week = Idle
    /\ pool = Idle
    /\ ss = Idle
    /\ day = Idle

NextResample ==
    \/ RsCall
    \/ RsFill
    \/ RsSeek
    \/ RsSeed
    \/ RsAssert

SpecResample == InitResample /\ [][NextResample]_vars

\* the observations {t=2: 5.0, t=5: 5.2}, in tenths, on the grid [0..6)
C6Obs == <<[t |-> 2, v |-> 50], [t |-> 5, v |-> 52]>>

C6Case ==
    /\ rs.pc # "idle"
    /\ rs.full_time = full_time(6)
    /\ rs.obs = IF rs.variant = "itch" THEN InMs(C6Obs) ELSE C6Obs

-----------------------------------------------------------------------------
(* Properties of the midpoint resamplers.                                  *)

\* the observations before the first grid second
Earlier(variant, obs, full) ==
    {k \in 1..Len(obs) :
        obs[k].t < (IF variant = "itch" THEN full[1] * 1000 ELSE full[1])}

\* C11: the resampler always ends: the backward scan for the seed is only at
\* a second t_pos while an observation at or before t_pos exists, which is
\* where it stops; with no such observation the pass fails with a resample
\* gap error instead of scanning on.
C11_ScanBounded ==
    rs.pc = "seek" => \E k \in 1..Len(rs.obs) : rs.obs[k].t <= rs.t_pos

\* C12: when the first grid second has no observation and the raw series has
\* an earlier one, the pass returns a series whose slots up to the first
\* observed second hold the value of the nearest earlier observation; for
\* the ITCH and the TAQ resampler alike.
C12_SeededFromEarlier ==
    (/\ rs.pc \in {"returned", "raised"}
     /\ rs.src = "tuple"
     /\ Hits(rs.variant, rs.obs, rs.full_time[1]) = {}
     /\ Earlier(rs.variant, rs.obs, rs.full_time) # {}) =>
        /\ rs.pc = "returned"
        /\ \A i \in 1..Len(rs.full_time) :
              (\A j \in 1..i : Hits(rs.variant, rs.obs, rs.full_time[j]) = {})
                  => rs.ret.midpoint[i]
                       = rs.obs[Max(Earlier(rs.variant, rs.obs, rs.full_time))].v

-----------------------------------------------------------------------------
(* The ITCH pass on days whose rows all carry one millisecond, at and next *)
(* to the two ends of the market hours.                                    *)

WindowTimes == {OpenMs - 1, OpenMs, OpenMs + 1, CloseMs - 1, CloseMs, CloseMs + 1}

WindowEvents ==
    {Row("S", 1, 2, 2000), Row("B", 2, 2, 2000), Row("F", 1, 0, 0), Row("E", 1, 1, 0)}

StampAt(rows, t) == [i \in 1..Len(rows) |-> [rows[i] EXCEPT !.Time = t]]

WindowDays ==
    {StampAt(rows, t) : rows \in SeqsUpTo(WindowEvents, 2, MaxEvents), t \in WindowTimes}

InitWindow ==
    /\ file \in {[exists |-> TRUE, rows |-> d] : d \in WindowDays}
                  \cup {[exists |-> FALSE, rows |-> <<>>]}
    /\ mid = MidStart
    /\ sgn = SgnStart
    /\ tick = Idle
    /\ week = Idle
    /\ rs = Idle
    /\ pool = Idle
    /\ ss = Idle
    /\ day = Idle

SpecWindow == InitWindow /\ [][Next]_vars

\* C13: the two filters keep the same timestamps: a best quote change and a
\* classified trade of the same millisecond are both returned or both
\* dropped, the first and last millisecond of the window included.
C13_SameWindow ==
    (mid.ret.kind = "tuple" /\ sgn.ret.kind = "tuple") =>
        \A k \in 1..Len(mid.bestTimes), j \in 1..Len(trade_data(file.rows)) :
            mid.bestTimes[k] = trade_data(file.rows)[j].Time =>
                (mid.bestTimes[k] \in Range(mid.ret.times_spread)
                    <=> trade_data(file.rows)[j].Time
                            \in Range(sgn.ret.trade_times_market))

-----------------------------------------------------------------------------
(* taq_data_plot_generator: the two starmap calls of the process pool, and *)
(* the files the passes write.  A path is the tuple of the parts that make *)
(* up the file name.                                                       *)

Tickers == {"AAPL", "MSFT"}

Dates == {"20080102", "20080103"}

\* iprod(tickers, date_list)
Passes == [ticker : Tickers, date : Dates]

\* ..._midpoint_{year}{month}{day}_{ticker}.pickle
MidpointPath(function_name, p) == <<function_name, "midpoint", p.date, p.ticker>>

\* ..._time.pickle
TimePath(function_name, p) == <<function_name, "time">>

\* the file taq_save_data writes for (function_name, ticker, year, month, day)
SavePath(function_name, p) == <<function_name, p.date, p.ticker>>

Write(path, function_name, p) ==
    [path |-> path, by |-> [function |-> function_name, pass |-> p]]

PoolStart ==
    [pc |-> "map", function |-> "taq_midpoint_second_data",
     at |-> [p \in Passes |-> "queued"], written |-> {}]

\* a pass runs up to its save: it has a series to save, or returns None
\* (TypeError: no data), or raises (failed assertion, IndexError)
PoolRun(p) ==
    /\ pool.pc = "map"
    /\ pool.at[p] = "queued"
    /\ \E end \in {"save", "None", "raised"} :
          pool' = [pool EXCEPT !.at[p] = end]
    /\ UNCHANGED <<day, ss, file, mid, sgn, tick, week, rs>>

\* taq_midpoint_second_data: pickle.dump of the midpoint
PoolSaveMidpoint(p) ==
    /\ pool.pc = "map"
    /\ pool.function = "taq_midpoint_second_data"
    /\ pool.at[p] = "save"
    /\ pool' = [pool EXCEPT
                  !.at[p] = "time",
                  !.written = @ \cup {Write(MidpointPath(pool.function, p),
                                            pool.function, p)}]
    /\ UNCHANGED <<day, ss, file, mid, sgn, tick, week, rs>>

\* taq_midpoint_second_data: pickle.dump of full_time
PoolSaveTime(p) ==
    /\ pool.pc = "map"
    /\ pool.at[p] = "time"
    /\ pool' = [pool EXCEPT
                  !.at[p] = "saved",
                  !.written = @ \cup {Write(TimePath(pool.function, p),
                                            pool.function, p)}]
    /\ UNCHANGED <<day, ss, file, mid, sgn, tick, week, rs>>

\* taq_trade_signs_second_data: taq_save_data
PoolSaveSigns(p) ==
    /\ pool.pc = "map"
    /\ pool.function = "taq_trade_signs_second_data"
    /\ pool.at[p] = "save"
    /\ pool' = [pool EXCEPT
                  !.at[p] = "saved",
                  !.written = @ \cup {Write(SavePath(pool.function, p),
                                            pool.function, p)}]
    /\ UNCHANGED <<day, ss, file, mid, sgn, tick, week, rs>>

\* starmap returns when every pass has ended, and raises what a pass raised;
\* then the second starmap begins
PoolJoin ==
    /\ pool.pc = "map"
    /\ \A p \in Passes : pool.at[p] \in {"saved", "None", "raised"}
    /\ pool' = IF \E p \in Passes : pool.at[p] = "raised"
               THEN [pool EXCEPT !.pc = "raised"]
               ELSE IF pool.function = "taq_midpoint_second_data"
                    THEN [pool EXCEPT !.function = "taq_trade_signs_second_data",
                                      !.at = [p \in Passes |-> "queued"]]
                    ELSE [pool EXCEPT !.pc = "done"]
    /\ UNCHANGED <<day, ss, file, mid, sgn, tick, week, rs>>

InitPool ==
    /\ pool = PoolStart
    /\ file = [exists |-> FALSE, rows |-> <<>>]
    /\ mid = Idle
    /\ sgn = Idle
    /\ tick = Idle
    /\ week = Idle
    /\ rs = Idle
    /\ ss = Idle
    /\ day = Idle

NextPool ==
    \/ \E p \in Passes : PoolRun(p)
    \/ \E p \in Passes : PoolSaveMidpoint(p)
    \/ \E p \in Passes : PoolSaveTime(p)
    \/ \E p \in Passes : PoolSaveSigns(p)
    \/ PoolJoin

SpecPool == InitPool /\ [][NextPool]_vars

\* C14: no two passes write the same file: whatever was written to a path
\* was written by one pass of one function.
C14_WriteOnce ==
    pool.pc # "idle" =>
        \A w1, w2 \in pool.written : w1.path = w2.path => w1.by = w2.by

-----------------------------------------------------------------------------
(* Properties of the order book replay.                                    *)

\* the limit orders resting at level k: the count of the level without the
\* 1 the empty book starts with at the last ask level and the first bid level
RestingAsks(b, k) == b.nAsk[k] - (IF k = b.nlev - 1 THEN 1 ELSE 0)

RestingBids(b, k) == b.nBid[k] - (IF k = 0 THEN 1 ELSE 0)

AskLevels(b) == {k \in 0..(b.nlev - 1) : RestingAsks(b, k) > 0}

BidLevels(b) == {k \in 0..(b.nlev - 1) : RestingBids(b, k) > 0}

\* the replay is about to process a row that takes a limit order of type
\* typ (2 sell, 1 buy) out of the book at a level of the range
Leaving(typ) ==
    /\ mid.pc = "replay"
    /\ mid.iii <= Len(Book(file.rows))
    /\ TypeNr(Book(file.rows)[mid.iii].T) \in {5, 6}
    /\ types_ref(Book(file.rows))[mid.iii] = typ
    /\ InRange(myPriceIndex(prices_ref(Book(file.rows))[mid.iii], mid.minP), mid.nlev)

\* the row takes out the only limit order resting on the ask / bid side
LastAskLeaves ==
    /\ Leaving(2)
    /\ LET idx == myPriceIndex(prices_ref(Book(file.rows))[mid.iii], mid.minP)
       IN  AskLevels(mid) = {idx} /\ RestingAsks(mid, idx) = 1

LastBidLeaves ==
    /\ Leaving(1)
    /\ LET idx == myPriceIndex(prices_ref(Book(file.rows))[mid.iii], mid.minP)
       IN  BidLevels(mid) = {idx} /\ RestingBids(mid, idx) = 1

\* C15: when a full execution or deletion takes the last resting order of a
\* side out of the book, the replay goes on and the best quote of that side
\* keeps its value.
C15_KeepLastBest ==
    [][/\ LastAskLeaves => (mid'.pc = "replay" /\ mid'.bestAsk = mid.bestAsk)
       /\ LastBidLeaves => (mid'.pc = "replay" /\ mid'.bestBid = mid.bestBid)]_vars

-----------------------------------------------------------------------------
(* Properties of the order-linkage classification.                         *)

\* C16: every hidden trade comes out with the price and the volume of its
\* own record and with a sign that is +1 or -1, and it was matched to no
\* limit order.
C16_HiddenTrades ==
    sgn.pc = "returned" /\ sgn.ret.kind = "tuple" =>
        \A t \in 1..Len(trade_data(file.rows)) :
            trade_data(file.rows)[t].T = "T" =>
                /\ sgn.trade_price[t] = trade_data(file.rows)[t].Price
                /\ sgn.trade_volumes[t] = trade_data(file.rows)[t].Shares
                /\ sgn.trade_signs[t] \in {1, -1}
                /\ sgn.matched[t] = 0

-----------------------------------------------------------------------------
(* Properties of the tick rule.                                            *)

\* C17: in the returned signs, every trade i that has a predecessor has the
\* sign of price[i] - price[i-1] when the prices differ, and the sign of
\* trade i-1 when they are equal.
C17_TickRule ==
    (tick.pc = "returned" /\ tick.ret.kind = "tuple") =>
        \A i \in 2..Len(tick.ask_t) :
            tick.ret.identified_trades[i] =
                IF tick.ask_t[i] # tick.ask_t[i - 1]
                THEN Sign(tick.ask_t[i] - tick.ask_t[i - 1])
                ELSE tick.ret.identified_trades[i - 1]

\* signs were returned for a day with a price change and an unchanged price
C17_Witness ==
    /\ tick.pc = "returned"
    /\ tick.ret.kind = "tuple"
    /\ \E i \in 2..Len(tick.ask_t) : tick.ask_t[i] # tick.ask_t[i - 1]
    /\ \E i \in 2..Len(tick.ask_t) : tick.ask_t[i] = tick.ask_t[i - 1]

-----------------------------------------------------------------------------
(* Properties of the volumes of the order-linkage classification.          *)

\* the loop is about to process a partial execution matched to the limit
\* order l
PartialOf(l) ==
    /\ sgn.pc = "loop"
    /\ sgn.t_idx <= Len(trade_data(file.rows))
    /\ trade_data(file.rows)[sgn.t_idx].T = "E"
    /\ l # 0
    /\ l = FirstMatch(trade_data(file.rows)[sgn.t_idx].Order, sgn.limit_data_order)

\* C18: a partial execution of at least the remaining quantity of its order
\* makes the pass fail and leaves the remaining quantities as they were; and
\* a remaining quantity only ever changes to (remaining - traded), which is
\* above 0.
C18_VolumeInconsistency ==
    [][\A l \in 1..Len(sgn.limit_data_order) :
          PartialOf(l) =>
              LET traded == trade_data(file.rows)[sgn.t_idx].Shares
                  remaining == sgn.limit_data_volume[l]
              IN  /\ traded >= remaining =>
                        /\ sgn'.pc = "raised"
                        /\ sgn'.limit_data_volume = sgn.limit_data_volume
                  /\ sgn'.limit_data_volume[l] # remaining =>
                        /\ sgn'.limit_data_volume[l] = remaining - traded
                        /\ remaining - traded > 0]_vars

-----------------------------------------------------------------------------
(* Properties of the best quotes of the replay.                            *)

\* C19: after every event of the replay, when a sell order rests at some
\* level of the range the best ask is the lowest such level, and when a buy
\* order rests at some level the best bid is the highest such level; the
\* first and the last level of the range are levels like the others.
C19_BestIsExtreme ==
    mid.pc \in {"replay", "filter"} =>
        /\ AskLevels(mid) # {} =>
              mid.bestAsk = valuesP(mid.minP, Min(AskLevels(mid)))
        /\ BidLevels(mid) # {} =>
              mid.bestBid = valuesP(mid.minP, Max(BidLevels(mid)))


\* a turn of the replay loop that processed a row
ReplayedRow ==
    mid.pc = "replay" /\ mid'.pc = "replay" /\ mid'.iii = mid.iii + 1

\* C20: the replay appends a record for a row exactly when the best bid or
\* the best ask after the row differs from its value before the row, the
\* record holds the time of that row and the quotes after it, and no two
\* records in a row hold the same pair of quotes.
C20_EmitOnChange ==
    /\ [][ReplayedRow =>
            IF mid'.bestAsk # mid.bestAsk \/ mid'.bestBid # mid.bestBid
            THEN /\ mid'.bestTimes
                      = Append(mid.bestTimes, Book(file.rows)[mid.iii].Time)
                 /\ mid'.bestAsks = Append(mid.bestAsks, mid'.bestAsk)
                 /\ mid'.bestBids = Append(mid.bestBids, mid'.bestBid)
            ELSE /\ mid'.bestTimes = mid.bestTimes
                 /\ mid'.bestAsks = mid.bestAsks
                 /\ mid'.bestBids = mid.bestBids]_vars
    /\ [](mid.pc \in {"replay", "filter"} =>
            \A k \in 1..(Len(mid.bestTimes) - 1) :
                <<mid.bestBids[k], mid.bestAsks[k]>>
                    # <<mid.bestBids[k + 1], mid.bestAsks[k + 1]>>)

\* the replay has ended with two records or more and fewer records than rows
C20_Witness ==
    /\ mid.pc = "filter"
    /\ Len(mid.bestTimes) >= 2
    /\ Len(mid.bestTimes) < Len(Book(file.rows))

-----------------------------------------------------------------------------
(* The ITCH pass on days with limit orders next to and far from the ends   *)
(* of the price range: with full executions at 0.20 the range is 0.18 to   *)
(* 0.21; 0.1799 lies under it by a hundredth of a tick, 0.90 far above.    *)

RangePrices == {1799, 2000, 9000}

RangeEvents ==
    {Row(T, o, q, p) : T \in {"B", "S"}, o \in OrderIds, q \in AddShares, p \in RangePrices}
    \cup {Row(T, o, 0, 0) : T \in {"F", "D"}, o \in OrderIds}

InitRange ==
    /\ file \in Files(RangeEvents, TimeBases)
    /\ mid = MidStart
    /\ sgn = SgnStart
    /\ tick = Idle
    /\ week = Idle
    /\ rs = Idle
    /\ pool = Idle
    /\ ss = Idle
    /\ day = Idle

SpecRange == InitRange /\ [][Next]_vars

\* the price (in 1/10000) lies in [minP, maxP], maxP the last level of the
\* range
PriceInRange(price, b) ==
    price >= 100 * valuesP(b.minP, 0) /\ price <= 100 * valuesP(b.minP, b.nlev - 1)

\* C21: a row whose resolved price lies outside [minP, maxP] changes neither
\* the counts of the levels nor the best quotes, and no record is appended
\* for it.
C21_OutOfRangeIgnored ==
    [][(ReplayedRow
        /\ ~PriceInRange(prices_ref(Book(file.rows))[mid.iii], mid)) =>
            /\ mid'.nAsk = mid.nAsk
            /\ mid'.nBid = mid.nBid
            /\ mid'.bestAsk = mid.bestAsk
            /\ mid'.bestBid = mid.bestBid
            /\ mid'.bestTimes = mid.bestTimes]_vars

-----------------------------------------------------------------------------
(* Properties of the matching of the order-linkage classification.         *)

\* C22: a limit order that a full execution was matched to is matched to no
\* later trade of the day.
C22_ConsumedNeverMatched ==
    sgn.pc \in {"loop", "finish", "raised", "returned"} /\ file.exists =>
        \A t1, t2 \in 1..Len(sgn.matched) :
            (/\ t1 < t2
             /\ trade_data(file.rows)[t1].T = "F"
             /\ sgn.matched[t1] # 0) => sgn.matched[t2] # sgn.matched[t1]


\* the trades the loop has gone through
Classified ==
    IF sgn.pc \in {"finish", "returned"} THEN 1..Len(sgn.matched)
    ELSE IF sgn.pc \in {"loop", "raised"} THEN 1..(sgn.t_idx - 1)
    ELSE {}

\* the limit orders (positions in limit_data) that rest in the book when
\* trade t arrives and carry its order number: they arrived before the
\* trade, and no earlier full execution was matched to them
RestingFor(t) ==
    {l \in 1..Len(limit_data(file.rows)) :
        /\ limit_data(file.rows)[l].Order = trade_data(file.rows)[t].Order
        /\ limit_data(file.rows)[l].Time < trade_data(file.rows)[t].Time
        /\ ~\E t1 \in 1..(t - 1) :
               trade_data(file.rows)[t1].T = "F" /\ sgn.matched[t1] = l}

\* C23: a partial or full execution for which a limit order of its number
\* rests in the book is matched to the first of them in arrival order, and
\* has sign +1 when that order is a sell order and -1 when it is a buy order.
C23_FirstRestingOrder ==
    \A t \in Classified :
        (trade_data(file.rows)[t].T \in {"E", "F"} /\ RestingFor(t) # {}) =>
            /\ sgn.matched[t] = Min(RestingFor(t))
            /\ sgn.trade_signs[t] =
                  IF limit_data(file.rows)[Min(RestingFor(t))].T = "S" THEN 1 ELSE -1

\* the pass returned and classified an execution for which two limit orders
\* of its number rested in the book
C23_Witness ==
    /\ sgn.pc = "returned"
    /\ sgn.ret.kind = "tuple"
    /\ \E t \in Classified :
          /\ trade_data(file.rows)[t].T \in {"E", "F"}
          /\ Cardinality(RestingFor(t)) >= 2


\* the loop is about to process an execution for which no limit order of
\* its number rests in the book
Unmatched ==
    /\ sgn.pc = "loop"
    /\ sgn.t_idx <= Len(trade_data(file.rows))
    /\ trade_data(file.rows)[sgn.t_idx].T \in {"E", "F"}
    /\ RestingFor(sgn.t_idx) = {}

\* C24: an execution for which no limit order of its number rests in the
\* book is skipped: its sign and volume stay 0, the numbers and volumes of
\* the limit orders stay as they were, and the loop goes on to the next
\* trade; the pass then returns.
C24_UnmatchedSkipped ==
    [][Unmatched =>
          /\ sgn'.pc = "loop"
          /\ sgn'.t_idx = sgn.t_idx + 1
          /\ sgn'.trade_signs[sgn.t_idx] = 0
          /\ sgn'.trade_volumes[sgn.t_idx] = 0
          /\ sgn'.limit_data_order = sgn.limit_data_order
          /\ sgn'.limit_data_volume = sgn.limit_data_volume]_vars

-----------------------------------------------------------------------------
(* Properties of the slots of the midpoint resamplers.                     *)

\* C25: when a resampler ends, every slot but the first holds the last
\* observation of its second, in the order of the series, or, when its
\* second has none, the value of the slot before it; so no slot after a set
\* slot is unset.
C25_LastOrCarried ==
    (rs.pc \in {"returned", "raised"} /\ rs.src = "tuple") =>
        \A i \in 2..Len(rs.full_time) :
            /\ rs.midpoint[i] =
                  IF Hits(rs.variant, rs.obs, rs.full_time[i]) # {}
                  THEN rs.obs[Max(Hits(rs.variant, rs.obs, rs.full_time[i]))].v
                  ELSE rs.midpoint[i - 1]
            /\ rs.midpoint[i - 1] # 0 => rs.midpoint[i] # 0
            /\ rs.pc = "returned" => rs.ret.midpoint = rs.midpoint

\* a series was returned for a day with a second, not the first, that has two
\* observations of different values, and a second that has none
C25_Witness ==
    /\ rs.pc = "returned"
    /\ rs.ret.kind = "tuple"
    /\ \E i \in 2..Len(rs.full_time) :
          \E k1, k2 \in Hits(rs.variant, rs.obs, rs.full_time[i]) :
              rs.obs[k1].v # rs.obs[k2].v
    /\ \E i \in 2..Len(rs.full_time) : Hits(rs.variant, rs.obs, rs.full_time[i]) = {}

-----------------------------------------------------------------------------
(* itch_trade_signs_second_data and taq_trade_signs_second_data: the trade *)
(* signs of a day, one value per second of the grid.  Seconds are counted  *)
(* from 34800 as in full_time; the ITCH times are in milliseconds from     *)
(* that second, the TAQ times in seconds.                                  *)

SignGridLen == 3
MaxSignObs == 3
SignPrices == {10, 11}

\* np.array(range(34800, 57000)) in ITCH, np.array(range(34801, 57001)) in TAQ
sign_full_time(variant, n) ==
    [i \in 1..n |-> IF variant = "taq" THEN i ELSE i - 1]

SignObsTimes(variant) ==
    IF variant = "taq" THEN 0..(SignGridLen + 1)
    ELSE {0 - 1, 1000 * SignGridLen}
         \cup {1000 * t + o : t \in 0..(SignGridLen - 1), o \in {0, 999}}

\* the times of n trades, in increasing order
SignTimes(variant, n) ==
    {ts \in [1..n -> SignObsTimes(variant)] :
        \A k \in 1..(n - 1) : ts[k] <= ts[k + 1]}

\* the signs of n trades: in {-1, 0, 1} from the order matching, in {-1, 1}
\* from the tick rule
SignSigns(variant, n) ==
    [1..n -> IF variant = "taq" THEN {0 - 1, 1} ELSE {0 - 1, 0, 1}]

\* the prices of n trades, which only the TAQ function reads
SignAsks(variant, n) == [1..n -> IF variant = "taq" THEN SignPrices ELSE {0}]

\* what the trade-level function hands over, trade by trade
SignSeries(ts, vs, ps) ==
    [k \in 1..Len(ts) |-> [t |-> ts[k], v |-> vs[k], p |-> ps[k]]]

\* condition = (time_ms >= t_val * 1000) * (time_ms < (t_val + 1) * 1000)
\* condition = (time_t >= t_val) * (time_t < t_val + 1)
condition(variant, obs, t_val) ==
    {k \in 1..Len(obs) :
        IF variant = "taq"
        THEN obs[k].t >= t_val /\ obs[k].t < t_val + 1
        ELSE obs[k].t >= t_val * 1000 /\ obs[k].t < (t_val + 1) * 1000}

\* np.sum(trade_signs_ms[condition])
trade_sum(variant, obs, t_val) ==
    SumOver([k \in 1..Len(obs) |-> obs[k].v], condition(variant, obs, t_val))

SecondSignSum(variant, obs, t_val) == trade_sum(variant, obs, t_val)

\* np.sign(trade_sum)
SecondSign(variant, obs, t_val) == Sign(trade_sum(variant, obs, t_val))

\* price_signs[t_idx] = ask_t[condition][-1], left at 0. without a trade
SecondPrice(variant, obs, t_val) ==
    IF condition(variant, obs, t_val) = {} THEN 0
    ELSE obs[Max(condition(variant, obs, t_val))].p

SsStart(variant, src, obs, n) ==
    [pc |-> "call", variant |-> variant, src |-> src, obs |-> obs, n |-> n,
     full_time |-> <<>>, trade_signs |-> <<>>, price_signs |-> <<>>,
     t_idx |-> 0, ret |-> [kind |-> "unset"], exc |-> "none"]

\* The call of the trade-level function and the unpacking of its result:
\* a None raises TypeError, which only the TAQ function catches.
SsCall ==
    /\ ss.pc = "call"
    /\ ss' = IF ss.src = "None"
             THEN IF ss.variant = "taq"
                  THEN [ss EXCEPT !.pc = "returned", !.ret = [kind |-> "None"]]
                  ELSE [ss EXCEPT !.pc = "raised", !.exc = "TypeError"]
             ELSE [ss EXCEPT !.pc = "loop",
                             !.full_time = sign_full_time(ss.variant, ss.n),
                             !.trade_signs = [i \in 1..ss.n |-> 0],
                             !.price_signs = [i \in 1..ss.n |-> 0],
                             !.t_idx = 1]
    /\ UNCHANGED <<day, file, mid, sgn, tick, week, rs, pool>>

\* One turn of the loop over the grid.
SsStep ==
    /\ ss.pc = "loop"
    /\ ss.t_idx <= Len(ss.full_time)
    /\ ss' = [ss EXCEPT
                !.trade_signs[ss.t_idx] =
                    SecondSign(ss.variant, ss.obs, ss.full_time[ss.t_idx]),
                !.price_signs[ss.t_idx] =
                    IF ss.variant = "taq"
                    THEN SecondPrice(ss.variant, ss.obs, ss.full_time[ss.t_idx])
                    ELSE 0,
                !.t_idx = ss.t_idx + 1]
    /\ UNCHANGED <<day, file, mid, sgn, tick, week, rs, pool>>

\* The save and the return after the loop.
SsReturn ==
    /\ ss.pc = "loop"
    /\ ss.t_idx > Len(ss.full_time)
    /\ ss' = [ss EXCEPT !.pc = "returned",
                        !.ret = [kind |-> "tuple", full_time |-> ss.full_time,
                                 price_signs |-> ss.price_signs,
                                 trade_signs |-> ss.trade_signs]]
    /\ UNCHANGED <<day, file, mid, sgn, tick, week, rs, pool>>

InitSigns ==
    /\ file = Idle
    /\ mid = Idle
    /\ sgn = Idle
    /\ tick = Idle
    /\ week = Idle
    /\ rs = Idle
    /\ pool = Idle
    /\ day = Idle
    /\ \E variant \in {"itch", "taq"}, n \in 1..SignGridLen :
          \/ ss = SsStart(variant, "None", <<>>, n)
          \/ \E k \in 0..MaxSignObs :
                \E ts \in SignTimes(variant, k), vs \in SignSigns(variant, k),
                   ps \in SignAsks(variant, k) :
                    ss = SsStart(variant, "tuple", SignSeries(ts, vs, ps), n)

NextSigns == SsCall \/ SsStep \/ SsReturn

SpecSigns == InitSigns /\ [][NextSigns]_vars

\* the trades of grid second t_val: at or after its start, before the next
InSecondOf(t_val) ==
    {k \in 1..Len(ss.obs) :
        IF ss.variant = "taq" THEN ss.obs[k].t = t_val
        ELSE ss.obs[k].t \div 1000 = t_val}

(* C26: for every second of the grid the sign resampler writes the sign of *)
(* the sum of the trade signs observed in that second (+1 when the buys    *)
(* outnumber the sells, -1 when the sells outnumber the buys, 0 on a tie), *)
(* 0 for a second without a trade, and never a value outside {-1, 0, 1}.   *)
C26_SignOfSum ==
    (ss.pc = "returned" /\ ss.ret.kind = "tuple") =>
        \A i \in 1..Len(ss.ret.full_time) :
            LET here == InSecondOf(ss.ret.full_time[i])
                buys == Cardinality({k \in here : ss.obs[k].v = 1})
                sells == Cardinality({k \in here : ss.obs[k].v = 0 - 1})
            IN  /\ ss.ret.trade_signs[i] \in {0 - 1, 0, 1}
                /\ here = {} => ss.ret.trade_signs[i] = 0
                /\ ss.ret.trade_signs[i] =
                       IF buys > sells THEN 1 ELSE IF buys < sells THEN 0 - 1 ELSE 0

C26_Witness ==
    /\ ss.pc = "returned"
    /\ ss.ret.kind = "tuple"
    /\ Len(ss.ret.full_time) = SignGridLen
    /\ InSecondOf(ss.ret.full_time[1]) = {}
    /\ Cardinality(InSecondOf(ss.ret.full_time[2])) = 3
    /\ ss.ret.trade_signs[2] = 0 - 1
    /\ \E k \in InSecondOf(ss.ret.full_time[2]) : ss.obs[k].v = 1

-----------------------------------------------------------------------------
(* One call of itch_/taq_self_response_day_responses_second_data, lag by   *)
(* lag.                                                                    *)

\* the two pickle files of the call: series of every length up to SeriesLen,
\* the trade signs as long as the midpoints or one shorter
DayCallInputs ==
    {[exists |-> FALSE, midpoint |-> <<>>, trade_sign |-> <<>>]}
    \cup UNION {{[exists |-> TRUE, midpoint |-> m, trade_sign |-> s] :
                    m \in SeqsUpTo(MidVals, n, n),
                    s \in SeqsUpTo(SignVals, n - 1, n)} : n \in 1..SeriesLen}

DayStart(in) ==
    [pc |-> "load", in |-> in, tau_idx |-> 0,
     self_response_tau |-> <<>>, num |-> <<>>,
     ret |-> [kind |-> "unset"], exc |-> "none"]

\* the two loads, the assertion and the two arrays of zeros
DayLoad ==
    /\ day.pc = "load"
    /\ day' = IF ~day.in.exists
              THEN [day EXCEPT !.pc = "returned",
                               !.ret = [kind |-> "tuple"] @@ FailedDay]
              ELSE IF Len(day.in.midpoint) # Len(day.in.trade_sign)
              THEN [day EXCEPT !.pc = "raised", !.exc = "AssertionError"]
              ELSE [day EXCEPT !.pc = "loop",
                               !.self_response_tau = Zeros, !.num = ZerosN]
    /\ UNCHANGED <<file, mid, sgn, tick, week, rs, pool, ss>>

\* the count over the whole series instead of trade_sign[:-tau_idx - 1]
LagNumNoGuard(trade_sign, tau_idx) ==
    Cardinality({t \in 1..Len(trade_sign) : trade_sign[t] # 0})

\* num[tau_idx] = trade_sign_no_0_len
LagNum(trade_sign, tau_idx) == trade_sign_no_0_len(trade_sign, tau_idx)

\* self_response_tau[tau_idx] after the turn: the sum is written only when
\* the count is not 0
LagResponse(midpoint, trade_sign, tau_idx, before) ==
    IF trade_sign_no_0_len(trade_sign, tau_idx) # 0
    THEN ResponseSum(midpoint, trade_sign, tau_idx)
    ELSE before

\* one turn of the loop over the lags
DayLag ==
    /\ day.pc = "loop"
    /\ day.tau_idx < Tau
    /\ day' = [day EXCEPT
                 !.num[day.tau_idx] = LagNum(day.in.trade_sign, day.tau_idx),
                 !.self_response_tau[day.tau_idx] =
                     LagResponse(day.in.midpoint, day.in.trade_sign, day.tau_idx,
                                 day.self_response_tau[day.tau_idx]),
                 !.tau_idx = day.tau_idx + 1]
    /\ UNCHANGED <<file, mid, sgn, tick, week, rs, pool, ss>>

DayReturn ==
    /\ day.pc = "loop"
    /\ day.tau_idx = Tau
    /\ day' = [day EXCEPT !.pc = "returned",
                          !.ret = [kind |-> "tuple",
                                   self_response_tau |-> day.self_response_tau,
                                   num |-> day.num]]
    /\ UNCHANGED <<file, mid, sgn, tick, week, rs, pool, ss>>

InitDay ==
    /\ file = Idle
    /\ mid = Idle
    /\ sgn = Idle
    /\ tick = Idle
    /\ week = Idle
    /\ rs = Idle
    /\ pool = Idle
    /\ ss = Idle
    /\ \E in \in DayCallInputs : day = DayStart(in)

NextDay == DayLoad \/ DayLag \/ DayReturn

SpecDay == InitDay /\ [][NextDay]_vars

\* the indices t, counted from 0, with t + tau + 1 inside a series of length n
InBounds(n, tau) == {t \in 0..(n - 1) : t + tau + 1 <= n - 1}

RECURSIVE ProdOver(_, _)
ProdOver(f, S) ==
    IF S = {} THEN 1
    ELSE LET x == CHOOSE y \in S : TRUE IN f[x] * ProdOver(f, S \ {x})

(* C27: for two series m and s of equal length and every lag tau below the *)
(* number of lags, the day function returns N(tau) = the number of indices *)
(* t with 0 <= t < len - tau - 1 and s[t] # 0, and R(tau) = the sum over   *)
(* those t of ((m[t + tau + 1] - m[t]) / m[t]) * s[t]; R(tau) is 0 when    *)
(* N(tau) is 0.  The equality of R is written over the common denominator  *)
(* D, the product of the m[t] in bounds.                                   *)
C27_DayResponse ==
    (day.pc = "returned" /\ day.in.exists) =>
        \A tau \in 0..(Tau - 1) :
            LET m == day.in.midpoint
                s == day.in.trade_sign
                T == InBounds(Len(m), tau)
                D == ProdOver([t \in T |-> m[t + 1]], T)
                R == day.ret.self_response_tau[tau]
                N == day.ret.num[tau]
            IN  /\ N = Cardinality({t \in T : s[t + 1] # 0})
                /\ R.den # 0
                /\ R.num * D =
                     R.den * SumOver([t \in T |-> (m[t + tau + 2] - m[t + 1]) * s[t + 1]
                                                      * (D \div m[t + 1])], T)
                /\ N = 0 => R = RatZero

C27_Witness ==
    /\ day.pc = "returned"
    /\ day.in.exists
    /\ Len(day.in.midpoint) = SeriesLen
    /\ day.ret.num[0] = SeriesLen - 1
    /\ day.ret.self_response_tau[0].num # 0
    /\ day.ret.self_response_tau[0].den > 1
    /\ day.in.trade_sign[SeriesLen] # 0

-----------------------------------------------------------------------------
(* The counts of the replay.                                               *)

\* every order id is added once, and after that fully executed or deleted
\* at most once
AddedOnceLeftOnce(rows) ==
    \A o \in {rows[i].Order : i \in 1..Len(rows)} :
        LET adds == {i \in 1..Len(rows) : rows[i].Order = o /\ TypeNr(rows[i].T) < 3}
            leaves == {i \in 1..Len(rows) : rows[i].Order = o /\ TypeNr(rows[i].T) \in {5, 6}}
            others == {i \in 1..Len(rows) : rows[i].Order = o /\ TypeNr(rows[i].T) >= 3}
        IN  /\ Cardinality(adds) = 1
            /\ Cardinality(leaves) <= 1
            /\ \A i \in others : i > Min(adds)

(* C28: in the replay of a day on which every order id is added once and  *)
(* then fully executed or deleted at most once, the count of resting asks  *)
(* and the count of resting bids of every price level are >= 0 after every *)
(* event.                                                                  *)
C28_CountsNonNegative ==
    (file.exists /\ mid.pc \in {"replay", "filter", "returned", "raised"}
        /\ AddedOnceLeftOnce(Book(file.rows))) =>
        \A k \in 0..(mid.nlev - 1) :
            /\ mid.nAsk[k] >= 0
            /\ mid.nBid[k] >= 0
            /\ RestingAsks(mid, k) >= 0
            /\ RestingBids(mid, k) >= 0

C28_Witness ==
    /\ file.exists
    /\ mid.pc = "filter"
    /\ AddedOnceLeftOnce(Book(file.rows))
    /\ \E i \in 1..Len(file.rows) : file.rows[i].T = "F"
    /\ \A k \in 0..(mid.nlev - 1) : RestingAsks(mid, k) = 0 /\ RestingBids(mid, k) = 0

-----------------------------------------------------------------------------
(* The tick rule on two days.                                              *)

\* the signs the loop of equation (1) leaves for the prices ask_t
TickSigns(ask_t) ==
    LET F[i \in 0..Len(ask_t)] ==
            IF i = 0 THEN Seeded(Len(ask_t))
            ELSE [F[i - 1] EXCEPT ![i] = TickSign(ask_t, F[i - 1], i)]
    IN  F[Len(ask_t)]

\* the days the tick rule classifies: some trade, no zero price
TickDays == SeqsUpTo(TradePrices \ {0}, 1, MaxTrades)

(* C29: the sign of a trade depends only on the prices of that trade and   *)
(* of the earlier trades: a second day whose prices agree with the         *)
(* classified day on trades 0..i gives trade i the same sign, whatever the *)
(* later prices are.                                                       *)
C29_NoLookAhead ==
    tick.pc \in {"check", "returned"} /\ tick.exists =>
        \A other \in TickDays :
            \A i \in 1..Min({Len(other), Len(tick.ask_t)}) :
                (\A j \in 1..i : other[j] = tick.ask_t[j])
                    => TickSigns(other)[i] = tick.identified_trades[i]

-----------------------------------------------------------------------------
(* The grids of the two per-second series of a day.                        *)

(* C30: the per-second trade signs of a day are indexed by the same        *)
(* seconds as its per-second midpoints: index t of the signs is the second *)
(* that index t of full_time of the midpoint function names, and holds the *)
(* sign of the trades of that second.                                      *)
C30_SameSeconds ==
    (ss.pc = "returned" /\ ss.ret.kind = "tuple") =>
        \A i \in 1..Len(ss.ret.full_time) :
            /\ ss.ret.full_time[i] = full_time(Len(ss.ret.full_time))[i]
            /\ ss.ret.trade_signs[i] =
                   Sign(SumOver([k \in 1..Len(ss.obs) |-> ss.obs[k].v],
                                InSecondOf(full_time(Len(ss.ret.full_time))[i])))

====
